---- MODULE Spec2Model ----
(***************************************************************************)
(* CIUSuite2 grid pipeline: Raw_Processing (normalize_by_col,              *)
(* sav_gol_smooth, find_nearest, crop, interpolate_cv, average_ciu),       *)
(* CIU2_Main (process_raw_obj) and Original_CIU (get_contour_levels,       *)
(* rmsd_difference, average_ciu, interpolate_axes, compare_basic_raw,      *)
(* delta_dt).                                                              *)
(*                                                                         *)
(* Numbers are exact rationals <<n, d>> in lowest terms with d > 0.  The   *)
(* IEEE values the code can produce by dividing by zero are <<0, 0>> (nan) *)
(* and <<1, 0>>, <<-1, 0>> (inf, -inf).  A grid is a sequence of rows,     *)
(* each row a sequence of numbers; an axis is a sequence of numbers.       *)
(* Python's None is the empty sequence and a present value v is <<v>>.     *)
(***************************************************************************)
EXTENDS Integers, Sequences, FiniteSets, TLC

(***************************************************************************)
(* Bounds of the model                                                     *)
(***************************************************************************)
MaxAxisLen == 3
MaxAxisVal == 3
MaxRows == 2
MaxCols == 2
MaxCell == 2
MaxBins == 3
MaxWindow == 3
MaxIter == 2
MaxOps == 2
MaxList == 2
MaxSmoothRows == 6
MaxLockChanges == 2

(***************************************************************************)
(* Float arithmetic as exact rationals                                     *)
(***************************************************************************)
Abs(x) == IF x < 0 THEN -x ELSE x

RECURSIVE GCD(_, _)
GCD(a, b) == IF b = 0 THEN a ELSE GCD(b, a % b)

NaN == <<0, 0>>

IsFinite(a) == a[2] # 0

Frac(n, d) ==
    IF d = 1 THEN <<n, 1>>
    ELSE IF d = 0
    THEN (IF n = 0 THEN NaN ELSE IF n > 0 THEN <<1, 0>> ELSE <<-1, 0>>)
    ELSE LET g == GCD(Abs(n), Abs(d))
             s == IF d < 0 THEN -1 ELSE 1
         IN  <<(s * n) \div g, (s * d) \div g>>

Num(k) == <<k, 1>>

\* sums over the least common denominator, which keeps the integers small
FAdd(a, b) ==
    IF IsFinite(a) /\ IsFinite(b)
    THEN LET l == (a[2] \div GCD(a[2], b[2])) * b[2]
         IN  Frac(a[1] * (l \div a[2]) + b[1] * (l \div b[2]), l)
    ELSE NaN

FSub(a, b) == FAdd(a, <<-b[1], b[2]>>)

FMul(a, b) ==
    IF IsFinite(a) /\ IsFinite(b)
    THEN Frac(a[1] * b[1], a[2] * b[2])
    ELSE NaN

FDiv(a, b) ==
    IF IsFinite(a) /\ IsFinite(b)
    THEN Frac(a[1] * b[2], a[2] * b[1])
    ELSE NaN

FAbs(a) == <<Abs(a[1]), a[2]>>

\* a < b on finite numbers; every comparison with nan is false
FLt(a, b) == IsFinite(a) /\ IsFinite(b) /\ a[1] * b[2] < b[1] * a[2]

FLe(a, b) == IsFinite(a) /\ IsFinite(b) /\ a[1] * b[2] <= b[1] * a[2]

(***************************************************************************)
(* Array helpers (numpy indexing, 0-based in the code, 1-based here: the   *)
(* code's index i is position i + 1)                                       *)
(***************************************************************************)
\* A grid carries its numpy shape (a 0 x k array still has k columns), its
\* cells as a sequence of rows, and whether it is a Python list of rows
\* (what interpolate_cv returns) instead of an ndarray.
\* The cells are stored as computed values (a sequence made by \o is a
\* stored tuple, where a function expression is evaluated again on each use).
Stored(cells) == [i \in 1..Len(cells) |-> cells[i] \o <<>>] \o <<>>

Grid(r, c, cells, isList) ==
    [shape |-> <<r, c>>, data |-> Stored(cells), aslist |-> isList]

Rows(g) == g.shape[1]

Cols(g) == g.shape[2]

NoGridValue == Grid(0, 0, <<>>, FALSE)

None == <<>>

Some(v) == <<v>>

Min2(a, b) == IF a < b THEN a ELSE b

\* a[lo : hi + 1] with 0-based lo, hi >= 0: empty when lo > hi, and cut at
\* the end of a
Slice(a, lo, hi) == SubSeq(a, Min2(lo, Len(a)) + 1, Min2(hi + 1, Len(a)))

Column(g, c) == [r \in 1..Rows(g) |-> g.data[r][c]]

Reverse(s) == [i \in 1..Len(s) |-> s[Len(s) + 1 - i]]

\* np.amax over a non-empty sequence of finite numbers
RECURSIVE SeqMax(_)
SeqMax(s) ==
    IF Len(s) = 1 THEN s[1]
    ELSE LET m == SeqMax(Tail(s)) IN IF FLt(s[1], m) THEN m ELSE s[1]

RECURSIVE SeqMin(_)
SeqMin(s) ==
    IF Len(s) = 1 THEN s[1]
    ELSE LET m == SeqMin(Tail(s)) IN IF FLt(m, s[1]) THEN m ELSE s[1]

\* np.argmin / np.argmax: 0-based index of the first extreme element, found
\* by a scan from the left that moves only on a strictly better element
RECURSIVE ArgMinFrom(_, _, _)
ArgMinFrom(s, i, best) ==
    IF i > Len(s) THEN best - 1
    ELSE ArgMinFrom(s, i + 1, IF FLt(s[i], s[best]) THEN i ELSE best)

ArgMin(s) == ArgMinFrom(s, 2, 1)

RECURSIVE ArgMaxFrom(_, _, _)
ArgMaxFrom(s, i, best) ==
    IF i > Len(s) THEN best - 1
    ELSE ArgMaxFrom(s, i + 1, IF FLt(s[best], s[i]) THEN i ELSE best)

ArgMax(s) == ArgMaxFrom(s, 2, 1)

\* np.linspace(start, stop, num)
linspace(start, stop, num) ==
    IF num = 1 THEN <<start>>
    ELSE [i \in 1..num |->
            IF i = num THEN stop
            ELSE FAdd(start, FDiv(FMul(Num(i - 1), FSub(stop, start)), Num(num - 1)))]

\* np.sum over a sequence of numbers
RECURSIVE SumSeq(_)
SumSeq(s) == IF Len(s) = 0 THEN Num(0) ELSE FAdd(s[1], SumSeq(Tail(s)))

(***************************************************************************)
(* Raw_Processing.find_nearest                                             *)
(***************************************************************************)
\* |array - value|, elementwise
Distances(array, value) == [i \in 1..Len(array) |-> FAbs(FSub(array[i], value))]

\* the scan of a wrong argmin that also moves on an equal element
RECURSIVE ArgMinLastFrom(_, _, _)
ArgMinLastFrom(s, i, best) ==
    IF i > Len(s) THEN best - 1
    ELSE ArgMinLastFrom(s, i + 1, IF FLe(s[i], s[best]) THEN i ELSE best)

find_nearest_last(array, value) == ArgMinLastFrom(Distances(array, value), 2, 1)

find_nearest(array, value) == ArgMin(Distances(array, value))

(***************************************************************************)
(* Raw_Processing.normalize_by_col                                         *)
(***************************************************************************)
\* the column maxima, np.amax(raw_data_matrix, axis=0)
ColMax(m) == [c \in 1..Cols(m) |-> SeqMax(Column(m, c))]

\* raw_data_matrix / maxint: a new array, every cell over its column's maximum
DivideByCol(m, maxint) ==
    Grid(Rows(m), Cols(m),
         [r \in 1..Rows(m) |-> [c \in 1..Cols(m) |-> FDiv(m.data[r][c], maxint[c])]],
         FALSE)

normalize_no_guard(raw_data_matrix) ==
    DivideByCol(raw_data_matrix, ColMax(raw_data_matrix))

normalize_by_col(raw_data_matrix) ==
    LET maxint == ColMax(raw_data_matrix)
        norm   == DivideByCol(raw_data_matrix, maxint)
    IN  IF \E c \in 1..Len(maxint) : maxint[c] = Num(0)
        THEN [norm EXCEPT !.data =
                 [r \in 1..Rows(norm) |->
                     [c \in 1..Cols(norm) |->
                         IF maxint[c] = Num(0) THEN Num(0) ELSE norm.data[r][c]]]]
        ELSE norm

(***************************************************************************)
(* Raw_Processing.interpolate_cv                                           *)
(***************************************************************************)
\* scipy.interpolate.interp1d(x, y)(xnew), linear, for xnew inside the range
\* of x: interp1d sorts x (and y with it) before use.
interp1d(x, y, xnew) ==
    LET asc == FLe(x[1], x[Len(x)])
        xs  == IF asc THEN x ELSE Reverse(x)
        ys  == IF asc THEN y ELSE Reverse(y)
    IN  IF Len(xs) = 1 THEN ys[1]
        ELSE LET i == CHOOSE k \in 1..(Len(xs) - 1) :
                          /\ FLe(xs[k], xnew) \/ k = 1
                          /\ FLe(xnew, xs[k + 1]) \/ k = Len(xs) - 1
                          /\ \A j \in 1..(k - 1) : ~FLe(xnew, xs[j + 1])
                 slope == FDiv(FSub(ys[i + 1], ys[i]), FSub(xs[i + 1], xs[i]))
             IN  FAdd(ys[i], FMul(slope, FSub(xnew, xs[i])))

\* Returns [err, data, axes]: interp1d raises ValueError when a row's length
\* differs from the length of the axis it is interpolated over.
interpolate_cv(norm_data, ax, num_bins) ==
    LET xaxis       == ax[1]
        start_cv    == xaxis[1]
        end_cv      == xaxis[Len(xaxis)]
        new_cv_axis == linspace(start_cv, end_cv, num_bins)
        newaxes     == <<new_cv_axis, ax[2]>>
    IN  IF Rows(norm_data) > 0 /\ Len(xaxis) # Cols(norm_data)
        THEN [err |-> "ValueError", data |-> norm_data, axes |-> ax]
        ELSE [err  |-> "",
              data |-> Grid(Rows(norm_data), num_bins,
                            [r \in 1..Rows(norm_data) |->
                                [k \in 1..num_bins |->
                                    interp1d(xaxis, norm_data.data[r], new_cv_axis[k])]],
                            TRUE),
              axes |-> newaxes]

(***************************************************************************)
(* Raw_Processing.sav_gol_smooth                                           *)
(***************************************************************************)
\* the window the filter is run with: an even window is incremented
OddWindow(smooth_window) ==
    IF smooth_window % 2 = 0 THEN smooth_window + 1 ELSE smooth_window

\* The weight of the window's k-th point (k in 1..w, w odd) in the value at
\* window position at of the least-squares quadratic through the w points:
\* with x = k - centre and x0 = at - centre,
\*   1/w + x x0 / S2 + (x^2 - S2/w)(x0^2 - S2/w) / (S4 - S2^2/w),
\* S2 and S4 the sums of x^2 and x^4 over the window.
savgol_weight(w, k, at) ==
    LET m   == (w - 1) \div 2
        x   == k - (m + 1)
        x0  == at - (m + 1)
        S2  == SumSeq([j \in 1..w |-> Num((j - m - 1) * (j - m - 1))])
        S4  == SumSeq([j \in 1..w |->
                   Num((j - m - 1) * (j - m - 1) * (j - m - 1) * (j - m - 1))])
        mu  == FDiv(S2, Num(w))
        den == FSub(S4, FMul(S2, mu))
    IN  FAdd(Frac(1, w),
             FAdd(FDiv(Num(x * x0), S2),
                  FDiv(FMul(FSub(Num(x * x), mu), FSub(Num(x0 * x0), mu)), den)))

\* scipy.signal.savgol_filter(col, w, 2), mode 'interp': in the interior the
\* quadratic fitted to the window around a point, evaluated at the point; in
\* the first and last (w - 1) / 2 points the quadratic fitted to the first and
\* last w points, evaluated where the point lies
savgol_filter(col, w) ==
    LET n == Len(col)
        m == (w - 1) \div 2
        first(i) == IF i <= m THEN 1 ELSE IF i > n - m THEN n - w + 1 ELSE i - m
    IN  [i \in 1..n |->
            SumSeq([k \in 1..w |->
                FMul(savgol_weight(w, k, i - first(i) + 1), col[first(i) + k - 1])])] \o <<>>

\* a filter that hands its input back
sav_gol_smooth_off(ciu_data_matrix, smooth_window) ==
    [err |-> "", data |-> [ciu_data_matrix EXCEPT !.aslist = FALSE]]

\* Returns [err, data].  savgol_filter raises ValueError when the polynomial
\* order 2 is not below the window length or the window is longer than a
\* column.
sav_gol_smooth(ciu_data_matrix, smooth_window) ==
    LET w == OddWindow(smooth_window)
    IN  IF Cols(ciu_data_matrix) = 0
        THEN [err |-> "", data |-> [ciu_data_matrix EXCEPT !.aslist = FALSE]]
        ELSE IF w <= 2 \/ w > Rows(ciu_data_matrix)
        THEN [err |-> "ValueError", data |-> ciu_data_matrix]
        ELSE LET cols == [c \in 1..Cols(ciu_data_matrix) |->
                             savgol_filter(Column(ciu_data_matrix, c), w)] \o <<>>
             IN  [err  |-> "",
                  data |-> Grid(Rows(ciu_data_matrix), Cols(ciu_data_matrix),
                                [r \in 1..Rows(ciu_data_matrix) |->
                                    [c \in 1..Cols(ciu_data_matrix) |-> cols[c][r]]],
                                FALSE)]

(***************************************************************************)
(* Raw_Processing.crop                                                     *)
(***************************************************************************)
\* An analysis object: CIUAnalysisObj.ciu_data and .axes = [dt_axis, cv_axis]
AnalysisObj(data, ax) == [ciu_data |-> data, axes |-> ax]

\* ciu_data_matrix[lo : hi + 1]: the rows lo..hi
CropRows(m, lo, hi) ==
    LET d == Slice(m.data, lo, hi)
    IN  Grid(Len(d), Cols(m), d, m.aslist)

\* swapaxes, [lo : hi + 1], swapaxes: the columns lo..hi, as an ndarray
CropCols(m, lo, hi) ==
    LET d == [r \in 1..Rows(m) |-> Slice(m.data[r], lo, hi)]
        n == Min2(hi + 1, Cols(m)) - Min2(lo, Cols(m))
    IN  Grid(Rows(m), IF n < 0 THEN 0 ELSE n, d, FALSE)

\* crop without the single-axis skip: an axis is cut even when its two
\* bounds resolve to one index
crop_noskip(analysis_obj, crop_vals) ==
    LET dt_axis == analysis_obj.axes[1]
        cv_axis == analysis_obj.axes[2]
    IN  IF Len(dt_axis) = 0 \/ Len(cv_axis) = 0
        THEN [err |-> "ValueError", obj |-> analysis_obj]
        ELSE
        LET dt_low  == find_nearest(dt_axis, crop_vals[1])
            dt_high == find_nearest(dt_axis, crop_vals[2])
            cv_low  == find_nearest(cv_axis, crop_vals[3])
            cv_high == find_nearest(cv_axis, crop_vals[4])
            m1      == CropRows(analysis_obj.ciu_data, dt_low, dt_high)
            m2      == CropCols(m1, cv_low, cv_high)
        IN  [err |-> "",
             obj |-> [analysis_obj EXCEPT
                         !.ciu_data = m2,
                         !.axes = <<Slice(dt_axis, dt_low, dt_high),
                                    Slice(cv_axis, cv_low, cv_high)>>]]

\* crop with slices [low : high] that leave the high index out
crop_exclusive(analysis_obj, crop_vals) ==
    LET dt_axis == analysis_obj.axes[1]
        cv_axis == analysis_obj.axes[2]
    IN  IF Len(dt_axis) = 0 \/ Len(cv_axis) = 0
        THEN [err |-> "ValueError", obj |-> analysis_obj]
        ELSE
        LET dt_low  == find_nearest(dt_axis, crop_vals[1])
            dt_high == find_nearest(dt_axis, crop_vals[2])
            cv_low  == find_nearest(cv_axis, crop_vals[3])
            cv_high == find_nearest(cv_axis, crop_vals[4])
            crop_dt == ~(dt_high = dt_low)
            crop_cv == ~(cv_low = cv_high)
            m0      == analysis_obj.ciu_data
            m1      == IF crop_dt THEN CropRows(m0, dt_low, dt_high - 1) ELSE m0
            new_dt  == IF crop_dt THEN Slice(dt_axis, dt_low, dt_high - 1) ELSE dt_axis
            m2      == IF crop_cv THEN CropCols(m1, cv_low, cv_high - 1)
                       ELSE [m1 EXCEPT !.aslist = FALSE]
            new_cv  == IF crop_cv THEN Slice(cv_axis, cv_low, cv_high - 1) ELSE cv_axis
        IN  [err |-> "",
             obj |-> [analysis_obj EXCEPT !.ciu_data = m2, !.axes = <<new_dt, new_cv>>]]

\* Returns [err, obj].  find_nearest raises ValueError on an empty axis
\* (argmin of an empty sequence), before anything is assigned.
crop(analysis_obj, crop_vals) ==
    LET dt_axis == analysis_obj.axes[1]
        cv_axis == analysis_obj.axes[2]
    IN  IF Len(dt_axis) = 0 \/ Len(cv_axis) = 0
        THEN [err |-> "ValueError", obj |-> analysis_obj]
        ELSE
        LET dt_low  == find_nearest(dt_axis, crop_vals[1])
            dt_high == find_nearest(dt_axis, crop_vals[2])
            cv_low  == find_nearest(cv_axis, crop_vals[3])
            cv_high == find_nearest(cv_axis, crop_vals[4])
            crop_dt == ~(dt_high = dt_low)
            crop_cv == ~(cv_low = cv_high)
            m0      == analysis_obj.ciu_data
            m1      == IF crop_dt THEN CropRows(m0, dt_low, dt_high) ELSE m0
            new_dt  == IF crop_dt THEN Slice(dt_axis, dt_low, dt_high) ELSE dt_axis
            m2      == IF crop_cv THEN CropCols(m1, cv_low, cv_high)
                       ELSE [m1 EXCEPT !.aslist = FALSE]
            new_cv  == IF crop_cv THEN Slice(cv_axis, cv_low, cv_high) ELSE cv_axis
        IN  [err |-> "",
             obj |-> [analysis_obj EXCEPT !.ciu_data = m2, !.axes = <<new_dt, new_cv>>]]

(***************************************************************************)
(* Original_CIU.delta_dt                                                   *)
(***************************************************************************)
\* delta_dt centred on the last of several equal maxima
RECURSIVE ArgMaxLastFrom(_, _, _)
ArgMaxLastFrom(s, i, best) ==
    IF i > Len(s) THEN best - 1
    ELSE ArgMaxLastFrom(s, i + 1, IF FLt(s[i], s[best]) THEN best ELSE i)

delta_dt_last_max(analysis_obj) ==
    LET first_col     == Column(analysis_obj.ciu_data, 1)
        index_of_max  == ArgMaxLastFrom(first_col, 2, 1)
        old_dt_axis   == analysis_obj.axes[1]
        centroid_xval == old_dt_axis[index_of_max + 1]
        new_dt_axis   == [i \in 1..Len(old_dt_axis) |-> FSub(old_dt_axis[i], centroid_xval)]
    IN  [err |-> "",
         obj |-> [analysis_obj EXCEPT !.axes = <<new_dt_axis, analysis_obj.axes[2]>>]]

\* Returns [err, obj].  ciu_data[:, 0] raises TypeError on a list of rows and
\* IndexError on a grid without columns; argmax raises ValueError on an empty
\* column; axes[0][index_of_max] raises IndexError past the end of the axis.
delta_dt(analysis_obj) ==
    LET m == analysis_obj.ciu_data
    IN  IF m.aslist THEN [err |-> "TypeError", obj |-> analysis_obj]
        ELSE IF Cols(m) = 0 THEN [err |-> "IndexError", obj |-> analysis_obj]
        ELSE IF Rows(m) = 0 THEN [err |-> "ValueError", obj |-> analysis_obj]
        ELSE
        LET first_col     == Column(m, 1)
            index_of_max  == ArgMax(first_col)
            old_dt_axis   == analysis_obj.axes[1]
        IN  IF index_of_max + 1 > Len(old_dt_axis)
            THEN [err |-> "IndexError", obj |-> analysis_obj]
            ELSE LET centroid_xval == old_dt_axis[index_of_max + 1]
                     new_dt_axis   == [i \in 1..Len(old_dt_axis) |->
                                          FSub(old_dt_axis[i], centroid_xval)]
                 IN  [err |-> "",
                      obj |-> [analysis_obj EXCEPT
                                  !.axes = <<new_dt_axis, analysis_obj.axes[2]>>]]

(***************************************************************************)
(* Original_CIU.rmsd_difference, interpolate_axes, compare_basic_raw       *)
(***************************************************************************)
\* data[data < 0.1] = 0, written into the array itself
BelowThresholdZeroed(data) ==
    [data EXCEPT !.data =
        [r \in 1..Rows(data) |-> [c \in 1..Cols(data) |->
            IF FLt(data.data[r][c], Frac(1, 10)) THEN Num(0) ELSE data.data[r][c]]]]

\* np.count_nonzero
RECURSIVE CountSeq(_)
CountSeq(s) == IF Len(s) = 0 THEN 0 ELSE s[1] + CountSeq(Tail(s))

count_nonzero(data) ==
    CountSeq([r \in 1..Rows(data) |->
        CountSeq([c \in 1..Cols(data) |-> IF data.data[r][c] = Num(0) THEN 0 ELSE 1])])

\* the squared differences averaged over the cells of both arrays
rmsd_over_cells(data_1, data_2) ==
    LET t1 == BelowThresholdZeroed(data_1)
        t2 == BelowThresholdZeroed(data_2)
        dif == Grid(Rows(t1), Cols(t1),
                    [r \in 1..Rows(t1) |-> [c \in 1..Cols(t1) |->
                        FSub(t1.data[r][c], t2.data[r][c])]],
                    FALSE)
        total == SumSeq([r \in 1..Rows(dif) |->
                    SumSeq([c \in 1..Cols(dif) |->
                        FMul(dif.data[r][c], dif.data[r][c])])])
    IN  [err |-> "", data_1 |-> t1, data_2 |-> t2, dif |-> dif,
         msd |-> FDiv(total, Num(2 * Rows(t1) * Cols(t1)))]

\* Returns [err, data_1, data_2, dif, msd]: data_1 and data_2 are the two
\* argument arrays as the call leaves them, msd is (rmsd / 100) squared, the
\* quotient under the square root (nan when both counts are zero).  Comparing
\* a list with 0.1 raises TypeError; subtracting arrays of different shapes
\* raises ValueError, after both arrays were thresholded.
rmsd_difference(data_1, data_2) ==
    IF data_1.aslist
    THEN [err |-> "TypeError", data_1 |-> data_1, data_2 |-> data_2,
          dif |-> NoGridValue, msd |-> NaN]
    ELSE IF data_2.aslist
    THEN [err |-> "TypeError", data_1 |-> BelowThresholdZeroed(data_1), data_2 |-> data_2,
          dif |-> NoGridValue, msd |-> NaN]
    ELSE
    LET t1 == BelowThresholdZeroed(data_1)
        num_entries_1 == count_nonzero(t1)
        t2 == BelowThresholdZeroed(data_2)
        num_entries_2 == count_nonzero(t2)
    IN  IF t1.shape # t2.shape
        THEN [err |-> "ValueError", data_1 |-> t1, data_2 |-> t2,
              dif |-> NoGridValue, msd |-> NaN]
        ELSE
        LET dif == Grid(Rows(t1), Cols(t1),
                        [r \in 1..Rows(t1) |-> [c \in 1..Cols(t1) |->
                            FSub(t1.data[r][c], t2.data[r][c])]],
                        FALSE)
            total == SumSeq([r \in 1..Rows(dif) |->
                        SumSeq([c \in 1..Cols(dif) |->
                            FMul(dif.data[r][c], dif.data[r][c])])])
        IN  [err |-> "", data_1 |-> t1, data_2 |-> t2, dif |-> dif,
             msd |-> FDiv(total, Num(num_entries_1 + num_entries_2))]

\* interpolate_axes over the range of the first axis alone
interpolate_axes_first(axis1, axis2, num_bins) ==
    linspace(SeqMin(axis1), SeqMax(axis1), num_bins)

interpolate_axes(axis1, axis2, num_bins) ==
    LET min_val == SeqMin(<<SeqMin(axis1), SeqMin(axis2)>>)
        max_val == SeqMax(<<SeqMax(axis1), SeqMax(axis2)>>)
    IN  linspace(min_val, max_val, num_bins)

Max2(a, b) == IF a < b THEN b ELSE a

\* x cut to the range of axis: interp2d evaluates a point outside its data
\* at the nearest edge
Clamp(axis, x) ==
    LET lo == SeqMin(axis)
        hi == SeqMax(axis)
    IN  IF FLt(x, lo) THEN lo ELSE IF FLt(hi, x) THEN hi ELSE x

\* scipy.interpolate.interp2d(cv, dt, ciu_data)(cv_axis, dt_axis), linear: a
\* len(dt_axis) x len(cv_axis) array, linear along each row and then along
\* the column of the results
interp2d(analysis_obj, cv_axis, dt_axis) ==
    LET old_dt == analysis_obj.axes[1]
        old_cv == analysis_obj.axes[2]
        z      == analysis_obj.ciu_data
    IN  Grid(Len(dt_axis), Len(cv_axis),
             [j \in 1..Len(dt_axis) |-> [i \in 1..Len(cv_axis) |->
                 LET x == Clamp(old_cv, cv_axis[i])
                     along_cv == [r \in 1..Rows(z) |-> interp1d(old_cv, z.data[r], x)]
                 IN  interp1d(old_dt, along_cv, Clamp(old_dt, dt_axis[j]))]],
             FALSE)

\* Returns [err, obj1, obj2, cmp]: the two analysis objects as the call
\* leaves them and the call's locals.  Without interpolation norm_data_1 and
\* norm_data_2 are the objects' own ciu_data arrays, which rmsd_difference
\* writes to.
compare_basic_raw(analysis_obj1, analysis_obj2) ==
    LET interp_flag ==
            \/ ~(Len(analysis_obj1.axes[1]) = Len(analysis_obj2.axes[1]))
            \/ ~(Len(analysis_obj1.axes[2]) = Len(analysis_obj2.axes[2]))
        num_bins_dt == Max2(Len(analysis_obj1.axes[1]), Len(analysis_obj2.axes[1]))
        num_bins_cv == Max2(Len(analysis_obj1.axes[2]), Len(analysis_obj2.axes[2]))
        dt_axis == IF interp_flag
                   THEN interpolate_axes(analysis_obj1.axes[1], analysis_obj2.axes[1], num_bins_dt)
                   ELSE analysis_obj1.axes[1]
        cv_axis == IF interp_flag
                   THEN interpolate_axes(analysis_obj1.axes[2], analysis_obj2.axes[2], num_bins_cv)
                   ELSE analysis_obj1.axes[2]
        norm_data_1 == IF interp_flag THEN interp2d(analysis_obj1, cv_axis, dt_axis)
                       ELSE analysis_obj1.ciu_data
        norm_data_2 == IF interp_flag THEN interp2d(analysis_obj2, cv_axis, dt_axis)
                       ELSE analysis_obj2.ciu_data
        new_axes == IF interp_flag THEN <<dt_axis, cv_axis>> ELSE analysis_obj1.axes
        res == rmsd_difference(norm_data_1, norm_data_2)
    IN  [err  |-> res.err,
         obj1 |-> IF interp_flag THEN analysis_obj1
                  ELSE [analysis_obj1 EXCEPT !.ciu_data = res.data_1],
         obj2 |-> IF interp_flag THEN analysis_obj2
                  ELSE [analysis_obj2 EXCEPT !.ciu_data = res.data_2],
         cmp  |-> [interp_flag |-> interp_flag, axes |-> new_axes,
                   norm_data_1 |-> res.data_1, norm_data_2 |-> res.data_2,
                   dif |-> res.dif, msd |-> res.msd]]

(***************************************************************************)
(* Original_CIU.get_contour_levels                                         *)
(***************************************************************************)
\* int(round(x)) of a finite number: the nearest integer, the even one of two
\* equally near
RoundHalfEven(x) ==
    LET q == x[1] \div x[2]
        r == x[1] - q * x[2]
    IN  IF 2 * r < x[2] THEN q
        ELSE IF 2 * r > x[2] THEN q + 1
        ELSE IF q % 2 = 0 THEN q ELSE q + 1

possible_steps ==
    <<Frac(1, 1000), Frac(1, 100), Frac(1, 10), Num(1), Num(10), Num(100)>>

\* np.arange(start, stop, step) for step > 0: start + k * step for
\* 0 <= k < ceil((stop - start) / step)
arange(start, stop, step) ==
    LET span == FDiv(FSub(stop, start), step)
        fl   == span[1] \div span[2]
        n    == IF span[1] % span[2] = 0 THEN fl ELSE fl + 1
    IN  [k \in 1..(IF n > 0 THEN n ELSE 0) |-> FAdd(start, FMul(Num(k - 1), step))]

\* the maximum (minimum) over all cells of a grid with at least one cell
GridMax(g) == SeqMax([r \in 1..Rows(g) |-> SeqMax(g.data[r])])

GridMin(g) == SeqMin([r \in 1..Rows(g) |-> SeqMin(g.data[r])])

\* the step of each candidate that is nearest to the raw step, the first of
\* two equally near
NearestStep(raw_step) ==
    possible_steps[ArgMin([i \in 1..Len(possible_steps) |->
                              FAbs(FSub(possible_steps[i], raw_step))]) + 1]

\* the largest candidate step, whatever the data
get_contour_levels_coarse(ciu_data, merge_cutoff, num_contours) ==
    LET max_val == RoundHalfEven(FMul(GridMax(ciu_data), Num(100))) + 1
        min_val == RoundHalfEven(FMul(GridMin(ciu_data), Num(100))) - 1
        levels  == <<Num(min_val)>>
                      \o arange(Num(merge_cutoff), Num(max_val), Num(100))
    IN  [i \in 1..Len(levels) |-> FDiv(levels[i], Num(100))] \o <<>>

get_contour_levels(ciu_data, merge_cutoff, num_contours) ==
    LET max_val == RoundHalfEven(FMul(GridMax(ciu_data), Num(100))) + 1
        min_val == RoundHalfEven(FMul(GridMin(ciu_data), Num(100))) - 1
        step    == NearestStep(Frac(max_val - min_val, num_contours))
        levels  == <<Num(min_val)>>
                      \o arange(Num(merge_cutoff), Num(max_val), step)
    IN  [i \in 1..Len(levels) |-> FDiv(levels[i], Num(100))] \o <<>>

(***************************************************************************)
(* average_ciu of Raw_Processing (on matrices) and of Original_CIU (on     *)
(* analysis objects)                                                       *)
(***************************************************************************)
\* the integer root of n >= 0, rounded down
ISqrt(n) == CHOOSE k \in 0..n : k * k <= n /\ (k + 1) * (k + 1) > n

\* x ** 0.5 for x >= 0: the rational root when there is one, and otherwise
\* the root kept as the triple <<n, d, 2>>, "the square root of n / d"
FSqrt(x) ==
    IF ~IsFinite(x) \/ x[1] < 0 THEN NaN
    ELSE LET rn == ISqrt(x[1])
             rd == ISqrt(x[2])
         IN  IF rn * rn = x[1] /\ rd * rd = x[2] THEN Frac(rn, rd)
             ELSE <<x[1], x[2], 2>>

\* np.mean(list, axis=0) of a non-empty list of grids of one shape
np_mean(list) ==
    LET first == list[1]
    IN  Grid(Rows(first), Cols(first),
             [r \in 1..Rows(first) |-> [c \in 1..Cols(first) |->
                 FDiv(SumSeq([k \in 1..Len(list) |-> list[k].data[r][c]]),
                      Num(Len(list)))]],
             FALSE)

\* the standard deviation with Bessel's correction: n - 1 under the sum
np_std_sample(list) ==
    LET first == list[1]
        mean  == np_mean(list)
    IN  Grid(Rows(first), Cols(first),
             [r \in 1..Rows(first) |-> [c \in 1..Cols(first) |->
                 FSqrt(FDiv(SumSeq([k \in 1..Len(list) |->
                                LET d == FSub(list[k].data[r][c], mean.data[r][c])
                                IN  FMul(d, d)]),
                            Num(Len(list) - 1)))]],
             FALSE)

\* np.std(list, axis=0): the root of the mean of the squared deviations from
\* the mean
np_std(list) ==
    LET first == list[1]
        mean  == np_mean(list)
    IN  Grid(Rows(first), Cols(first),
             [r \in 1..Rows(first) |-> [c \in 1..Cols(first) |->
                 FSqrt(FDiv(SumSeq([k \in 1..Len(list) |->
                                LET d == FSub(list[k].data[r][c], mean.data[r][c])
                                IN  FMul(d, d)]),
                            Num(Len(list))))]],
             FALSE)

\* Raw_Processing.average_ciu
average_matrices(list_of_data_matrices) ==
    [avg_matrix |-> np_mean(list_of_data_matrices),
     std_matrix |-> np_std(list_of_data_matrices)]

\* CIUAnalysisObj(raw_obj, ciu_data, axes, params): an object holding its
\* four arguments
CIUAnalysisObj(raw_obj, ciu_data, ax, params_obj) ==
    [raw_obj |-> raw_obj, ciu_data |-> ciu_data, axes |-> ax, params |-> params_obj,
     raw_obj_list |-> <<>>]

\* average_ciu keeping the raw objects last to first
average_ciu_reversed(analysis_obj_list) ==
    LET raw_obj_list  == [k \in 1..Len(analysis_obj_list) |->
                             analysis_obj_list[Len(analysis_obj_list) + 1 - k].raw_obj]
        ciu_data_list == [k \in 1..Len(analysis_obj_list) |-> analysis_obj_list[k].ciu_data]
        avg_data      == np_mean(ciu_data_list)
        std_data      == np_std(ciu_data_list)
        averaged_obj  == CIUAnalysisObj(raw_obj_list[1], avg_data,
                                        analysis_obj_list[1].axes,
                                        analysis_obj_list[1].params)
    IN  [averaged_obj |-> [averaged_obj EXCEPT !.raw_obj_list = raw_obj_list],
         std_data |-> std_data]

\* Original_CIU.average_ciu: [averaged_obj, std_data]
average_ciu(analysis_obj_list) ==
    LET raw_obj_list  == [k \in 1..Len(analysis_obj_list) |-> analysis_obj_list[k].raw_obj]
        ciu_data_list == [k \in 1..Len(analysis_obj_list) |-> analysis_obj_list[k].ciu_data]
        avg_data      == np_mean(ciu_data_list)
        std_data      == np_std(ciu_data_list)
        averaged_obj  == CIUAnalysisObj(raw_obj_list[1], avg_data,
                                        analysis_obj_list[1].axes,
                                        analysis_obj_list[1].params)
    IN  [averaged_obj |-> [averaged_obj EXCEPT !.raw_obj_list = raw_obj_list],
         std_data |-> std_data]

(***************************************************************************)
(* State                                                                   *)
(***************************************************************************)
VARIABLES
    raw,        \* the CIURaw object: rawdata, dt_axis, cv_axis
    params,     \* the Parameters object given to process_raw_obj
    pc,         \* the position of the running call
    norm_data,  \* process_raw_obj's local norm_data
    axes,       \* process_raw_obj's local axes
    err,        \* the exception the last call raised, "" when it returned
    obj,        \* the analysis object (analysis_obj / analysis_obj1)
    pre,        \* obj as it was when the last analysis function was called
    op,         \* the last analysis function called, with its crop_vals
    nops,       \* number of analysis functions called on obj
    nn,         \* a find_nearest call: array, value and the index returned
    obj2,       \* the second analysis object of a comparison (analysis_obj2)
    cmp,        \* compare_basic_raw's locals when it returns
    call        \* a call of a stand-alone function: its arguments and what it returned

vars == <<raw, params, pc, norm_data, axes, err, obj, pre, op, nops, nn, obj2, cmp, call>>

NoGrid == NoGridValue

NoAxes == <<<<>>, <<>>>>

NoObj == AnalysisObj(NoGrid, NoAxes)

NoRaw == [rawdata |-> NoGrid, dt_axis |-> <<>>, cv_axis |-> <<>>]

\* CIU_Params.Parameters.__init__: every option None
NoParams ==
    [interpolation_bins     |-> None,
     smoothing_window       |-> None,
     smoothing_iterations   |-> None,
     cropping_window_values |-> None]

NoOp == [name |-> "", vals |-> <<>>]

NoCall == [array |-> <<>>, value |-> Num(0), idx |-> -1]

NoFn == [fn |-> ""]

NoCmp ==
    [interp_flag |-> FALSE, axes |-> NoAxes, norm_data_1 |-> NoGrid,
     norm_data_2 |-> NoGrid, dif |-> NoGrid, msd |-> Num(0)]

(***************************************************************************)
(* Inputs                                                                  *)
(***************************************************************************)
\* strictly monotonic axes, ascending or descending, of whole numbers
AxisOf(S, descending) ==
    LET n == Cardinality(S)
        up == CHOOSE f \in [1..n -> S] : \A i \in 1..(n - 1) : f[i] < f[i + 1]
        a == [i \in 1..n |-> Num(up[i])]
    IN  IF descending THEN Reverse(a) ELSE a

MonotonicAxes ==
    { AxisOf(S, d) : S \in { T \in SUBSET (1..MaxAxisVal) :
                                 Cardinality(T) >= 1 /\ Cardinality(T) <= MaxAxisLen },
                     d \in BOOLEAN }

\* raw intensity grids: ion counts, never negative.  Odd columns carry one
\* free column of counts and even columns another, so that up to two columns
\* every grid is present and wider grids stay few.
IntensityGrids(rs, cs) ==
    UNION { { Grid(r, c, [i \in 1..r |-> [j \in 1..c |->
                            Num(IF j % 2 = 1 THEN f[i] ELSE g[i])]], FALSE) :
                f \in [1..r -> 0..MaxCell], g \in [1..r -> 0..MaxCell] } :
            r \in rs, c \in cs }

\* a grid whose cells tell their position apart
PositionGrid(r, c) ==
    Grid(r, c, [i \in 1..r |-> [j \in 1..c |-> Num(10 * i + j)]], FALSE)

\* two fixed intensity patterns, the second with an all-zero first column
PatternGrid(r, c, p) ==
    Grid(r, c,
         [i \in 1..r |-> [j \in 1..c |->
             IF p = 1 THEN Num(((i * j) % 3) + 1)
             ELSE IF j = 1 THEN Num(0) ELSE Num(i + j)]],
         FALSE)

StepAxis(n, step) == [i \in 1..n |-> Num(step * i)]

PipeRaws ==
    { [rawdata |-> PatternGrid(r, c, p), dt_axis |-> StepAxis(r, 1), cv_axis |-> StepAxis(c, 5)] :
        r \in 2..MaxAxisLen, c \in 2..MaxAxisLen, p \in 1..2 }

Option(S) == {None} \cup { Some(v) : v \in S }

PipeParams ==
    [interpolation_bins     : Option(0..MaxBins),
     smoothing_window       : Option(2..MaxWindow),
     smoothing_iterations   : Option(0..MaxIter),
     cropping_window_values : Option({<<Num(1), Num(2), Num(5), Num(10)>>})]

PipeCrops ==
    { <<Num(a), Num(b), Num(5 * c), Num(5 * d)>> : a \in {1, 2}, b \in {2, 3}, c \in {1}, d \in {1, 2} }

AllCrops ==
    { <<Num(a), Num(b), Num(c), Num(d)>> :
        a \in 0..(MaxAxisVal + 1), b \in 0..(MaxAxisVal + 1),
        c \in 0..(MaxAxisVal + 1), d \in 0..(MaxAxisVal + 1) }

(***************************************************************************)
(* CIU2_Main.process_raw_obj, one action per stage                         *)
(***************************************************************************)
Raise(name) == pc' = "error" /\ err' = name

NormalizeInPlace ==
    /\ pc = "start"
    /\ norm_data' = normalize_by_col(raw.rawdata)
    /\ raw' = [raw EXCEPT !.rawdata = norm_data']
    /\ axes' = <<raw.dt_axis, raw.cv_axis>>
    /\ pc' = "normalized"
    /\ UNCHANGED <<call, params, err, obj, pre, op, nops, nn, obj2, cmp>>

Normalize ==
    /\ pc = "start"
    /\ norm_data' = normalize_by_col(raw.rawdata)
    /\ axes' = <<raw.dt_axis, raw.cv_axis>>
    /\ pc' = "normalized"
    /\ UNCHANGED <<call, raw, params, err, obj, pre, op, nops, nn, obj2, cmp>>

\* `None > 0` raises TypeError
Interpolate ==
    /\ pc = "normalized"
    /\ IF params.interpolation_bins = None
       THEN Raise("TypeError") /\ UNCHANGED <<norm_data, axes>>
       ELSE IF params.interpolation_bins[1] > 0
       THEN \E res \in {interpolate_cv(norm_data, axes, params.interpolation_bins[1])} :
                IF res.err # ""
                THEN Raise(res.err) /\ UNCHANGED <<norm_data, axes>>
                ELSE /\ norm_data' = res.data
                     /\ axes' = res.axes
                     /\ pc' = "interpolated"
                     /\ UNCHANGED err
       ELSE pc' = "interpolated" /\ UNCHANGED <<norm_data, axes, err>>
    /\ UNCHANGED <<call, raw, params, obj, pre, op, nops, nn, obj2, cmp>>

\* the while loop of the smoothing stage: [err, data] after i iterations more
RECURSIVE SmoothLoop(_, _, _)
SmoothLoop(data, window, i) ==
    IF i <= 0 THEN [err |-> "", data |-> data]
    ELSE LET res == sav_gol_smooth(data, window)
         IN  IF res.err # "" THEN res ELSE SmoothLoop(res.data, window, i - 1)

\* the smoothing stage with a single pass of the filter
SmoothOnce ==
    /\ pc = "interpolated"
    /\ IF params.smoothing_window = None
       THEN pc' = "smoothed" /\ UNCHANGED <<norm_data, err>>
       ELSE \E res \in {sav_gol_smooth(norm_data, params.smoothing_window[1])} :
                IF res.err # ""
                THEN Raise(res.err) /\ UNCHANGED norm_data
                ELSE norm_data' = res.data /\ pc' = "smoothed" /\ UNCHANGED err
    /\ UNCHANGED <<call, raw, params, axes, obj, pre, op, nops, nn, obj2, cmp>>

\* `i < None` raises TypeError
Smooth ==
    /\ pc = "interpolated"
    /\ IF params.smoothing_window = None
       THEN pc' = "smoothed" /\ UNCHANGED <<norm_data, err>>
       ELSE IF params.smoothing_iterations = None
       THEN Raise("TypeError") /\ UNCHANGED norm_data
       ELSE \E res \in {SmoothLoop(norm_data, params.smoothing_window[1],
                                     params.smoothing_iterations[1])} :
                IF res.err # ""
                THEN Raise(res.err) /\ UNCHANGED norm_data
                ELSE norm_data' = res.data /\ pc' = "smoothed" /\ UNCHANGED err
    /\ UNCHANGED <<call, raw, params, axes, obj, pre, op, nops, nn, obj2, cmp>>

\* Raw_Processing.crop(norm_data, axes, values): crop takes two arguments,
\* so the call raises TypeError
CropStage ==
    /\ pc = "smoothed"
    /\ IF params.cropping_window_values = None
       THEN pc' = "cropped" /\ UNCHANGED err
       ELSE Raise("TypeError")
    /\ UNCHANGED <<call, raw, params, norm_data, axes, obj, pre, op, nops, nn, obj2, cmp>>

MakeObj ==
    /\ pc = "cropped"
    /\ obj' = AnalysisObj(norm_data, axes)
    /\ pc' = "done"
    /\ UNCHANGED <<call, raw, params, norm_data, axes, err, pre, op, nops, nn, obj2, cmp>>

(***************************************************************************)
(* The analysis functions, called on the analysis object                   *)
(***************************************************************************)
CropCall(crop_vals) ==
    /\ pc = "done"
    /\ \E res \in {crop(obj, crop_vals)} :
           obj' = res.obj /\ err' = res.err
    /\ pre' = obj
    /\ op' = [name |-> "crop", vals |-> crop_vals]
    /\ nops' = nops + 1
    /\ UNCHANGED <<call, raw, params, pc, norm_data, axes, nn, obj2, cmp>>

DeltaDt ==
    /\ pc = "done"
    /\ nops < MaxOps
    /\ \E res \in {delta_dt(obj)} :
           obj' = res.obj /\ err' = res.err
    /\ pre' = obj
    /\ op' = [name |-> "delta_dt", vals |-> <<>>]
    /\ nops' = nops + 1
    /\ UNCHANGED <<call, raw, params, pc, norm_data, axes, nn, obj2, cmp>>

CropObj == nops < MaxOps /\ \E crop_vals \in PipeCrops : CropCall(crop_vals)

Init ==
    /\ raw \in PipeRaws
    /\ params \in PipeParams
    /\ pc = "start"
    /\ norm_data = NoGrid
    /\ axes = NoAxes
    /\ err = ""
    /\ obj = NoObj
    /\ pre = NoObj
    /\ op = NoOp
    /\ nops = 0
    /\ nn = NoCall
    /\ obj2 = NoObj
    /\ cmp = NoCmp
    /\ call = NoFn

Next ==
    \/ Normalize
    \/ Interpolate
    \/ Smooth
    \/ CropStage
    \/ MakeObj
    \/ CropObj
    \/ DeltaDt

Spec == Init /\ [][Next]_vars

(***************************************************************************)
(* normalize_by_col on every small intensity grid                          *)
(***************************************************************************)
NormRaws ==
    { [rawdata |-> g, dt_axis |-> StepAxis(Rows(g), 1), cv_axis |-> StepAxis(Cols(g), 5)] :
        g \in IntensityGrids(1..MaxRows, 1..MaxCols) }

InitNorm ==
    /\ raw \in NormRaws
    /\ params = NoParams
    /\ pc = "start"
    /\ norm_data = NoGrid
    /\ axes = NoAxes
    /\ err = ""
    /\ obj = NoObj
    /\ pre = NoObj
    /\ op = NoOp
    /\ nops = 0
    /\ nn = NoCall
    /\ obj2 = NoObj
    /\ cmp = NoCmp
    /\ call = NoFn

NextNorm == Normalize

SpecNorm == InitNorm /\ [][NextNorm]_vars

(***************************************************************************)
(* crop on analysis objects with every small monotonic axis on one         *)
(* dimension against the axis 1, 2, ... on the other: one call with any    *)
(* four bounds, then a second call with the same bounds                    *)
(***************************************************************************)
CropAxes ==
    { <<dt, cv>> \in MonotonicAxes \X MonotonicAxes :
        dt = StepAxis(MaxAxisLen, 1) \/ cv = StepAxis(MaxAxisLen, 1) }

CropObjs ==
    { AnalysisObj(PositionGrid(Len(ax[1]), Len(ax[2])), ax) : ax \in CropAxes }

InitCrop ==
    /\ raw = NoRaw
    /\ params = NoParams
    /\ pc = "done"
    /\ norm_data = NoGrid
    /\ axes = NoAxes
    /\ err = ""
    /\ obj \in CropObjs
    /\ pre = NoObj
    /\ op = NoOp
    /\ nops = 0
    /\ nn = NoCall
    /\ obj2 = NoObj
    /\ cmp = NoCmp
    /\ call = NoFn

CropFirst == nops = 0 /\ \E crop_vals \in AllCrops : CropCall(crop_vals)

CropAgain == nops = 1 /\ CropCall(op.vals)

NextCrop ==
    \/ CropFirst
    \/ CropAgain

SpecCrop == InitCrop /\ [][NextCrop]_vars

(***************************************************************************)
(* find_nearest on every small monotonic array and target                  *)
(***************************************************************************)
\* non-decreasing or non-increasing arrays of whole numbers
NearestArrays ==
    UNION { { [i \in 1..n |-> Num(f[i])] :
                f \in { g \in [1..n -> 1..MaxAxisVal] :
                          \/ \A i \in 1..(n - 1) : g[i] <= g[i + 1]
                          \/ \A i \in 1..(n - 1) : g[i] >= g[i + 1] } } :
            n \in 1..MaxAxisLen }

\* targets in steps of one half, from below the arrays to above them
NearestTargets == { Frac(k, 2) : k \in 0..(2 * MaxAxisVal + 2) }

InitNearest ==
    /\ raw = NoRaw
    /\ params = NoParams
    /\ pc = "nearest"
    /\ norm_data = NoGrid
    /\ axes = NoAxes
    /\ err = ""
    /\ obj = NoObj
    /\ pre = NoObj
    /\ op = NoOp
    /\ nops = 0
    /\ nn \in [array : NearestArrays, value : NearestTargets, idx : {-1}]
    /\ obj2 = NoObj
    /\ cmp = NoCmp
    /\ call = NoFn

FindNearest ==
    /\ pc = "nearest"
    /\ nn' = [nn EXCEPT !.idx = find_nearest(nn.array, nn.value)]
    /\ pc' = "found"
    /\ UNCHANGED <<call, raw, params, norm_data, axes, err, obj, pre, op, nops, obj2, cmp>>

NextNearest == FindNearest

SpecNearest == InitNearest /\ [][NextNearest]_vars

(***************************************************************************)
(* compare_basic_raw on pairs of analysis objects                          *)
(***************************************************************************)
\* axes of at least two values (interp2d needs two points along each axis)
CmpAxes == { ax \in CropAxes : Len(ax[1]) >= 2 /\ Len(ax[2]) >= 2 }

\* relative intensities 0, 0.05, 0.5 and 1: below and above the 0.1 threshold
CmpGrid(r, c, p) ==
    Grid(r, c,
         [i \in 1..r |-> [j \in 1..c |->
             LET k == (i + 2 * j + p) % 4
             IN  IF k = 0 THEN Num(1) ELSE IF k = 1 THEN Frac(1, 2)
                 ELSE IF k = 2 THEN Frac(1, 20) ELSE Num(0)]],
         FALSE)

CmpObjs ==
    { AnalysisObj(CmpGrid(Len(ax[1]), Len(ax[2]), p), ax) : ax \in CmpAxes, p \in 0..1 }

InitCompare ==
    /\ raw = NoRaw
    /\ params = NoParams
    /\ pc = "compare"
    /\ norm_data = NoGrid
    /\ axes = NoAxes
    /\ err = ""
    /\ obj \in CmpObjs
    /\ pre = NoObj
    /\ op = NoOp
    /\ nops = 0
    /\ nn = NoCall
    /\ obj2 \in CmpObjs
    /\ cmp = NoCmp
    /\ call = NoFn

CompareBasicRaw ==
    /\ pc = "compare"
    /\ \E res \in {compare_basic_raw(obj, obj2)} :
           /\ err' = res.err
           /\ obj' = res.obj1
           /\ obj2' = res.obj2
           /\ cmp' = res.cmp
    /\ pre' = obj
    /\ op' = [name |-> "compare_basic_raw", vals |-> <<>>]
    /\ pc' = "compared"
    /\ UNCHANGED <<call, raw, params, norm_data, axes, nops, nn>>

NextCompare == CompareBasicRaw

SpecCompare == InitCompare /\ [][NextCompare]_vars

(***************************************************************************)
(* rmsd_difference on pairs of grids of one shape                          *)
(***************************************************************************)
\* relative intensities below and above the 0.1 threshold
RmsdLevels == <<Num(0), Frac(1, 20), Frac(1, 2), Num(1)>>

\* a checkerboard of two levels: a where row + column is even, b elsewhere
RmsdGrid(r, c, a, b) ==
    Grid(r, c,
         [i \in 1..r |-> [j \in 1..c |->
             IF (i + j) % 2 = 0 THEN RmsdLevels[a] ELSE RmsdLevels[b]]],
         FALSE)

RmsdObjs(r, c) ==
    { AnalysisObj(RmsdGrid(r, c, a, b), <<StepAxis(r, 1), StepAxis(c, 1)>>) :
        a \in 1..Len(RmsdLevels), b \in 1..Len(RmsdLevels) }

InitRmsd ==
    /\ raw = NoRaw
    /\ params = NoParams
    /\ pc = "rmsd"
    /\ norm_data = NoGrid
    /\ axes = NoAxes
    /\ err = ""
    /\ \E r \in 1..MaxRows, c \in 1..MaxCols :
          obj \in RmsdObjs(r, c) /\ obj2 \in RmsdObjs(r, c)
    /\ pre = NoObj
    /\ op = NoOp
    /\ nops = 0
    /\ nn = NoCall
    /\ cmp = NoCmp
    /\ call = NoFn

\* rmsd_difference(obj.ciu_data, obj2.ciu_data): the two arrays are the
\* objects' own, so what the call writes to them shows in the objects
RmsdDifference ==
    /\ pc = "rmsd"
    /\ \E res \in {rmsd_difference(obj.ciu_data, obj2.ciu_data)} :
           /\ err' = res.err
           /\ obj' = [obj EXCEPT !.ciu_data = res.data_1]
           /\ obj2' = [obj2 EXCEPT !.ciu_data = res.data_2]
           /\ cmp' = [interp_flag |-> FALSE, axes |-> obj.axes,
                      norm_data_1 |-> res.data_1, norm_data_2 |-> res.data_2,
                      dif |-> res.dif, msd |-> res.msd]
    /\ pre' = obj
    /\ op' = [name |-> "rmsd_difference", vals |-> <<>>]
    /\ pc' = "rmsd_done"
    /\ UNCHANGED <<call, raw, params, norm_data, axes, nops, nn>>

NextRmsd == RmsdDifference

SpecRmsd == InitRmsd /\ [][NextRmsd]_vars

(***************************************************************************)
(* get_contour_levels on small grids, cutoffs and contour counts           *)
(***************************************************************************)
\* checkerboards of two intensity levels, the two levels equal included
ContourGrids ==
    { RmsdGrid(r, c, a, b) :
        r \in 1..MaxRows, c \in 1..MaxCols,
        a \in 1..Len(RmsdLevels), b \in 1..Len(RmsdLevels) }

\* the default of ciu_plot, and cutoffs std_dev_plot computes from the data
ContourCutoffs == {0, 3, 10}

ContourCounts == {1, 10, 100}

InitContour ==
    /\ raw = NoRaw
    /\ params = NoParams
    /\ pc = "contour"
    /\ norm_data = NoGrid
    /\ axes = NoAxes
    /\ err = ""
    /\ obj = NoObj
    /\ pre = NoObj
    /\ op = NoOp
    /\ nops = 0
    /\ nn = NoCall
    /\ obj2 = NoObj
    /\ cmp = NoCmp
    /\ call \in [fn : {"get_contour_levels"}, ciu_data : ContourGrids,
                 merge_cutoff : ContourCutoffs, num_contours : ContourCounts,
                 levels : {<<>>}]

GetContourLevels ==
    /\ pc = "contour"
    /\ call' = [call EXCEPT !.levels =
                   get_contour_levels(call.ciu_data, call.merge_cutoff, call.num_contours)]
    /\ pc' = "contoured"
    /\ UNCHANGED <<raw, params, norm_data, axes, err, obj, pre, op, nops, nn, obj2, cmp>>

\* a second call with the same arguments
GetContourLevelsAgain ==
    /\ pc = "contoured"
    /\ call' = [call EXCEPT !.levels =
                   get_contour_levels(call.ciu_data, call.merge_cutoff, call.num_contours)]
    /\ pc' = "contoured_again"
    /\ UNCHANGED <<raw, params, norm_data, axes, err, obj, pre, op, nops, nn, obj2, cmp>>

NextContour ==
    \/ GetContourLevels
    \/ GetContourLevelsAgain

SpecContour == InitContour /\ [][NextContour]_vars

(***************************************************************************)
(* average_ciu on lists of replicate analysis objects of one shape         *)
(***************************************************************************)
\* a grid whose odd rows hold a and whose even rows hold b
AvgGrid(r, c, a, b) ==
    Grid(r, c, [i \in 1..r |-> [j \in 1..c |-> IF i % 2 = 1 THEN Num(a) ELSE Num(b)]],
         FALSE)

\* the k-th replicate: its own raw object, parameters and axes
Replicate(k, g) ==
    [(CIUAnalysisObj(k, g, <<StepAxis(Rows(g), k), StepAxis(Cols(g), k)>>, k))
        EXCEPT !.raw_obj_list = <<k>>]

ReplicateLists(r, c) ==
    UNION { { [k \in 1..n |-> Replicate(k, AvgGrid(r, c, f[k][1], f[k][2]))] :
                f \in [1..n -> (0..MaxCell) \X (0..MaxCell)] } : n \in 1..MaxList }

InitAverage ==
    /\ raw = NoRaw
    /\ params = NoParams
    /\ pc = "average"
    /\ norm_data = NoGrid
    /\ axes = NoAxes
    /\ err = ""
    /\ obj = NoObj
    /\ pre = NoObj
    /\ op = NoOp
    /\ nops = 0
    /\ nn = NoCall
    /\ obj2 = NoObj
    /\ cmp = NoCmp
    /\ \E r \in 1..MaxRows :
          call \in [fn : {"average_ciu"},
                    analysis_obj_list : ReplicateLists(r, MaxCols),
                    averaged_obj : {CIUAnalysisObj(0, NoGrid, NoAxes, 0)},
                    std_data : {NoGrid}]

\* Original_CIU.average_ciu(analysis_obj_list, params_obj, outputdir)
AverageCiu ==
    /\ pc = "average"
    /\ \E res \in {average_ciu(call.analysis_obj_list)} :
          call' = [call EXCEPT !.averaged_obj = res.averaged_obj,
                               !.std_data = res.std_data]
    /\ pc' = "averaged"
    /\ UNCHANGED <<raw, params, norm_data, axes, err, obj, pre, op, nops, nn, obj2, cmp>>

\* Raw_Processing.average_ciu on the replicates' matrices
AverageMatrices ==
    /\ pc = "average"
    /\ \E res \in {average_matrices([k \in 1..Len(call.analysis_obj_list) |->
                                        call.analysis_obj_list[k].ciu_data])} :
          call' = [call EXCEPT !.averaged_obj.ciu_data = res.avg_matrix,
                               !.std_data = res.std_matrix]
    /\ pc' = "averaged_matrices"
    /\ UNCHANGED <<raw, params, norm_data, axes, err, obj, pre, op, nops, nn, obj2, cmp>>

NextAverage ==
    \/ AverageCiu
    \/ AverageMatrices

SpecAverage == InitAverage /\ [][NextAverage]_vars

(***************************************************************************)
(* delta_dt on analysis objects with any first column and any DT axis      *)
(***************************************************************************)
\* a grid with the first column f and cells that tell their position apart in
\* the other columns
DeltaGrid(r, c, f) ==
    Grid(r, c, [i \in 1..r |-> [j \in 1..c |->
                   IF j = 1 THEN Num(f[i]) ELSE Num(10 * i + j)]], FALSE)

DeltaObjs ==
    UNION { { AnalysisObj(DeltaGrid(Len(dt), c, f), <<dt, StepAxis(c, 5)>>) :
                f \in [1..Len(dt) -> 0..MaxCell], c \in 1..MaxCols } :
            dt \in { a \in MonotonicAxes : Len(a) <= MaxRows } }

InitDelta ==
    /\ raw = NoRaw
    /\ params = NoParams
    /\ pc = "done"
    /\ norm_data = NoGrid
    /\ axes = NoAxes
    /\ err = ""
    /\ obj \in DeltaObjs
    /\ pre = NoObj
    /\ op = NoOp
    /\ nops = 0
    /\ nn = NoCall
    /\ obj2 = NoObj
    /\ cmp = NoCmp
    /\ call = NoFn

NextDelta == DeltaDt

SpecDelta == InitDelta /\ [][NextDelta]_vars

(***************************************************************************)
(* the smoothing stage of process_raw_obj on grids long enough for a       *)
(* window of five to move along the column                                 *)
(***************************************************************************)
\* columns of four kinds: a single peak, a parabola, a ramp, a zigzag
SmoothCell(kind, i) ==
    IF kind % 4 = 0 THEN (IF i = 2 THEN Num(1) ELSE Num(0))
    ELSE IF kind % 4 = 1 THEN Num(i * i)
    ELSE IF kind % 4 = 2 THEN Num(i)
    ELSE Num(i % 2)

SmoothGrids ==
    { Grid(r, c, [i \in 1..r |-> [j \in 1..c |-> SmoothCell(kind + j, i)]], FALSE) :
        r \in 3..MaxSmoothRows, c \in 1..MaxCols, kind \in 0..3 }

\* the windows up to five: 1 is refused, 2 and 3 run as 3, 4 and 5 as 5
SmoothWindows == 1..5

InitSmooth ==
    /\ raw = NoRaw
    /\ params \in [interpolation_bins     : {None},
                   smoothing_window       : { Some(w) : w \in SmoothWindows },
                   smoothing_iterations   : { Some(n) : n \in 0..MaxIter },
                   cropping_window_values : {None}]
    /\ pc = "interpolated"
    /\ norm_data \in SmoothGrids
    /\ axes = NoAxes
    /\ err = ""
    /\ obj = NoObj
    /\ pre = NoObj
    /\ op = NoOp
    /\ nops = 0
    /\ nn = NoCall
    /\ obj2 = NoObj
    /\ cmp = NoCmp
    /\ call = NoFn

NextSmooth == Smooth

SpecSmooth == InitSmooth /\ [][NextSmooth]_vars

(***************************************************************************)
(* The output writes: plt.savefig in the plot functions and open(..., 'w')  *)
(* in write_ciu_csv, against a file another process may hold open          *)
(***************************************************************************)
\* the functions that write an output file
Writers ==
    {"Original_CIU.ciu_plot", "Original_CIU.rmsd_plot", "Original_CIU.std_dev_plot",
     "Original_CIU.write_ciu_csv", "CIU2_Main.write_ciu_csv", "CIU2_Main.ciu_plot"}

\* whether the function's write stands in a try with `except PermissionError`
\* that shows the message box and writes again
CatchesPermissionError(fn) ==
    fn \in {"Original_CIU.ciu_plot", "Original_CIU.rmsd_plot",
            "Original_CIU.std_dev_plot", "Original_CIU.write_ciu_csv"}

\* what opening the output path for writing does: the path is free, held
\* open by another process, or in a directory that does not exist
WriteOutcome(path_state) ==
    IF path_state = "free" THEN "ok"
    ELSE IF path_state = "locked" THEN "PermissionError"
    ELSE "FileNotFoundError"

InitWrite ==
    /\ raw = NoRaw
    /\ params = NoParams
    /\ pc = "write"
    /\ norm_data = NoGrid
    /\ axes = NoAxes
    /\ err = ""
    /\ obj = NoObj
    /\ pre = NoObj
    /\ op = NoOp
    /\ nops = 0
    /\ nn = NoCall
    /\ obj2 = NoObj
    /\ cmp = NoCmp
    /\ call \in [fn : Writers, path : {"free", "locked", "nodir"},
                 outcomes : {<<>>}, prompts : {0}, acknowledged : {0},
                 written : {0}, changes : {0}]

\* the write in the try block (or, without a try, the only write)
FirstWrite ==
    /\ pc = "write"
    /\ \E res \in {WriteOutcome(call.path)} :
          /\ call' = [call EXCEPT !.outcomes = Append(@, res),
                                  !.written = IF res = "ok" THEN @ + 1 ELSE @,
                                  !.prompts = IF res = "PermissionError"
                                                 /\ CatchesPermissionError(call.fn)
                                              THEN @ + 1 ELSE @]
          /\ IF res = "ok" THEN pc' = "written" /\ UNCHANGED err
             ELSE IF res = "PermissionError" /\ CatchesPermissionError(call.fn)
             THEN pc' = "showerror" /\ UNCHANGED err
             ELSE Raise(res)
    /\ UNCHANGED <<raw, params, norm_data, axes, obj, pre, op, nops, nn, obj2, cmp>>

\* messagebox.showerror returns when the user presses OK
Acknowledge ==
    /\ pc = "showerror"
    /\ call' = [call EXCEPT !.acknowledged = @ + 1]
    /\ pc' = "retry"
    /\ UNCHANGED <<raw, params, norm_data, axes, err, obj, pre, op, nops, nn, obj2, cmp>>

\* the write in the except block: what it raises leaves the function
SecondWrite ==
    /\ pc = "retry"
    /\ \E res \in {WriteOutcome(call.path)} :
          /\ call' = [call EXCEPT !.outcomes = Append(@, res),
                                  !.written = IF res = "ok" THEN @ + 1 ELSE @]
          /\ IF res = "ok" THEN pc' = "written" /\ UNCHANGED err
             ELSE Raise(res)
    /\ UNCHANGED <<raw, params, norm_data, axes, obj, pre, op, nops, nn, obj2, cmp>>

\* another process opens or closes the output file while the call runs
LockChange ==
    /\ pc \in {"write", "showerror", "retry"}
    /\ call.path \in {"free", "locked"}
    /\ call.changes < MaxLockChanges
    /\ call' = [call EXCEPT !.path = IF @ = "free" THEN "locked" ELSE "free",
                            !.changes = @ + 1]
    /\ UNCHANGED <<raw, params, pc, norm_data, axes, err, obj, pre, op, nops, nn, obj2, cmp>>

NextWrite ==
    \/ FirstWrite
    \/ Acknowledge
    \/ SecondWrite
    \/ LockChange

SpecWrite == InitWrite /\ [][NextWrite]_vars

(***************************************************************************)
(* Properties                                                              *)
(***************************************************************************)
\* the lowest 0-based index whose axis value is nearest to v
ResolvedIndex(axis, v) ==
    (CHOOSE i \in 1..Len(axis) :
        /\ \A j \in 1..Len(axis) :
              FLe(FAbs(FSub(axis[i], v)), FAbs(FSub(axis[j], v)))
        /\ \A j \in 1..(i - 1) :
              FLt(FAbs(FSub(axis[i], v)), FAbs(FSub(axis[j], v)))) - 1

\* the elements lo..hi (0-based, inclusive) of axis
Inclusive(axis, lo, hi) == [k \in 1..(IF hi < lo THEN 0 ELSE hi - lo + 1) |-> axis[lo + k]]

GridMatchesAxes(g, ax) == Rows(g) = Len(ax[1]) /\ Cols(g) = Len(ax[2])

\* C1: at every stage of process_raw_obj and after every analysis function
\* the grid has as many rows as axes[0] has values and as many columns as
\* axes[1] has values.
C1_GridMatchesAxes ==
    /\ pc \in {"normalized", "interpolated", "smoothed", "cropped"}
          => GridMatchesAxes(norm_data, axes)
    /\ pc = "done" => GridMatchesAxes(obj.ciu_data, obj.axes)

\* C2: after normalize_by_col every column that was all zero is all zero and
\* every other column has maximum exactly 1.
C2_ColumnMaxIsOne ==
    pc = "normalized" =>
        \A c \in 1..Cols(raw.rawdata) :
            LET before == Column(raw.rawdata, c)
                after  == Column(norm_data, c)
            IN  IF \A r \in 1..Len(before) : before[r] = Num(0)
                THEN \A r \in 1..Len(after) : after[r] = Num(0)
                ELSE /\ \E r \in 1..Len(after) : after[r] = Num(1)
                     /\ \A r \in 1..Len(after) : FLe(after[r], Num(1))

C2_Witness ==
    /\ pc = "normalized"
    /\ \E c \in 1..Cols(raw.rawdata) :
          /\ \A r \in 1..Rows(raw.rawdata) : raw.rawdata.data[r][c] = Num(0)
          /\ \A r \in 1..Rows(norm_data) : norm_data.data[r][c] = Num(0)
    /\ \E c \in 1..Cols(raw.rawdata) :
          /\ Column(raw.rawdata, c) = <<Num(1), Num(2)>>
          /\ Column(norm_data, c) = <<Frac(1, 2), Num(1)>>

\* C3: normalize_by_col returns a grid of the shape of its input and leaves
\* the input grid as it was.
C3_NormalizePure ==
    [][(pc = "start" /\ pc' = "normalized")
          => (raw' = raw /\ norm_data'.shape = raw.rawdata.shape)]_vars

C3_Witness ==
    /\ pc = "normalized"
    /\ norm_data.shape = raw.rawdata.shape
    /\ norm_data.data # raw.rawdata.data
    /\ \E c \in 1..Cols(raw.rawdata) : ColMax(raw.rawdata)[c] = Num(0)

\* C4: crop resolves its first two bounds on the CV axis, where they select
\* the columns, and its last two on the DT axis, where they select the rows.
C4_CvBoundsFirst ==
    nops = 1 =>
        LET cv_low  == ResolvedIndex(pre.axes[2], op.vals[1])
            cv_high == ResolvedIndex(pre.axes[2], op.vals[2])
            dt_low  == ResolvedIndex(pre.axes[1], op.vals[3])
            dt_high == ResolvedIndex(pre.axes[1], op.vals[4])
        IN  /\ obj.axes[2] = IF cv_low = cv_high THEN pre.axes[2]
                             ELSE Inclusive(pre.axes[2], cv_low, cv_high)
            /\ obj.axes[1] = IF dt_low = dt_high THEN pre.axes[1]
                             ELSE Inclusive(pre.axes[1], dt_low, dt_high)

\* C5: when the two bounds crop resolves on one axis give the same index,
\* that axis and the grid's extent along it stay as they were, and the other
\* axis, when its indices differ, is cut to [low, high] inclusive together
\* with the grid.
C5_EqualIndicesSkipAxis ==
    nops = 1 =>
        LET dt_low  == ResolvedIndex(pre.axes[1], op.vals[1])
            dt_high == ResolvedIndex(pre.axes[1], op.vals[2])
            cv_low  == ResolvedIndex(pre.axes[2], op.vals[3])
            cv_high == ResolvedIndex(pre.axes[2], op.vals[4])
            before  == pre.ciu_data
            after   == obj.ciu_data
        IN  /\ err = ""
            /\ dt_low = dt_high =>
                  /\ obj.axes[1] = pre.axes[1]
                  /\ Rows(after) = Rows(before)
                  /\ cv_low # cv_high =>
                        /\ obj.axes[2] = Inclusive(pre.axes[2], cv_low, cv_high)
                        /\ Cols(after) = Len(obj.axes[2])
                        /\ after.data = [r \in 1..Rows(before) |->
                                            Inclusive(before.data[r], cv_low, cv_high)]
            /\ cv_low = cv_high =>
                  /\ obj.axes[2] = pre.axes[2]
                  /\ Cols(after) = Cols(before)
                  /\ dt_low # dt_high =>
                        /\ obj.axes[1] = Inclusive(pre.axes[1], dt_low, dt_high)
                        /\ Rows(after) = Len(obj.axes[1])
                        /\ after.data = Inclusive(before.data, dt_low, dt_high)

C5_Witness ==
    /\ nops = 1
    /\ err = ""
    /\ ResolvedIndex(pre.axes[1], op.vals[1]) = ResolvedIndex(pre.axes[1], op.vals[2])
    /\ Len(pre.axes[1]) = 3
    /\ obj.axes[1] = pre.axes[1]
    /\ Rows(obj.ciu_data) = 3
    /\ Len(pre.axes[2]) = 3
    /\ Len(obj.axes[2]) = 2
    /\ Cols(obj.ciu_data) = 2

\* C6: two distinct bounds that resolve to one index of an axis crop that
\* axis to the single bin at that index: one row for the DT bounds, one
\* column for the CV bounds.
C6_SameIndexGivesOneBin ==
    nops = 1 =>
        /\ err = ""
        /\ (/\ op.vals[1] # op.vals[2]
            /\ ResolvedIndex(pre.axes[1], op.vals[1]) = ResolvedIndex(pre.axes[1], op.vals[2]))
              => (Rows(obj.ciu_data) = 1 /\ Len(obj.axes[1]) = 1)
        /\ (/\ op.vals[3] # op.vals[4]
            /\ ResolvedIndex(pre.axes[2], op.vals[3]) = ResolvedIndex(pre.axes[2], op.vals[4]))
              => (Cols(obj.ciu_data) = 1 /\ Len(obj.axes[2]) = 1)

\* C7: a second crop with the same four bounds leaves the cropped grid and
\* both axes as the first crop left them, and returns whenever the cropped
\* axes still have a value for the bounds to resolve to.
C7_SecondCropNoOp ==
    nops = 2 =>
        /\ obj = pre
        /\ (Len(pre.axes[1]) > 0 /\ Len(pre.axes[2]) > 0) => err = ""

C7_Witness ==
    /\ nops = 2
    /\ err = ""
    /\ obj = pre
    /\ obj.ciu_data.shape = <<2, 2>>
    /\ obj.ciu_data.data[1][1] = Num(22)
    /\ Len(obj.axes[1]) = 2
    /\ Len(obj.axes[2]) = 2

\* C8: find_nearest returns an index of the array whose value is nearest to
\* the target, the lowest such index, and for a target below (above) every
\* value the index of a smallest (largest) value.
C8_NearestLowestIndex ==
    pc = "found" =>
        LET a    == nn.array
            v    == nn.value
            k    == nn.idx + 1
            d(i) == FAbs(FSub(a[i], v))
        IN  /\ k \in 1..Len(a)
            /\ \A j \in 1..Len(a) : FLe(d(k), d(j))
            /\ \A j \in 1..(k - 1) : FLt(d(k), d(j))
            /\ (\A j \in 1..Len(a) : FLt(v, a[j])) => a[k] = SeqMin(a)
            /\ (\A j \in 1..Len(a) : FLt(a[j], v)) => a[k] = SeqMax(a)

C8_Witness ==
    /\ pc = "found"
    /\ nn.array = <<Num(1), Num(3)>>
    /\ nn.value = Num(2)
    /\ nn.idx = 0

\* C9: after process_raw_obj's interpolation to N bins the CV axis has N
\* evenly spaced values from the old CV axis's first to its last value, the
\* DT axis is as it was, and the grid has the old number of rows and N
\* columns.
C9_ResampleCvAxis ==
    (pc = "interpolated" /\ params.interpolation_bins # None
        /\ params.interpolation_bins[1] > 0) =>
        LET N  == params.interpolation_bins[1]
            cv == raw.cv_axis
        IN  /\ Len(axes[2]) = N
            /\ axes[2][1] = cv[1]
            /\ axes[2][N] = cv[Len(cv)]
            /\ \A i \in 1..(N - 2) :
                  FSub(axes[2][i + 1], axes[2][i]) = FSub(axes[2][i + 2], axes[2][i + 1])
            /\ axes[1] = raw.dt_axis
            /\ norm_data.shape = <<Rows(raw.rawdata), N>>

C11_CallerGridsKept ==
    [][(pc = "compare" /\ pc' = "compared")
          => (obj'.ciu_data = obj.ciu_data /\ obj2'.ciu_data = obj2.ciu_data)]_vars

\* the value a cell has after thresholding at 0.1
Thresholded(x) == IF FLt(x, Frac(1, 10)) THEN Num(0) ELSE x

\* the sum over the cells of a grid of shape of f(r, c)
SumCells(shape, f(_, _)) ==
    SumSeq([k \in 1..(shape[1] * shape[2]) |->
                f(((k - 1) \div shape[2]) + 1, ((k - 1) % shape[2]) + 1)])

\* C12: rmsd_difference zeroes the cells below 0.1 of each grid, returns the
\* difference D of the thresholded grids, and its RMSD is 100 times the root
\* of msd = sum(D^2) / (nonzero cells of A + nonzero cells of B), both counts
\* taken after thresholding.
C12_RmsdFormula ==
    [][(pc = "rmsd" /\ pc' = "rmsd_done") =>
        LET A == obj.ciu_data
            B == obj2.ciu_data
            a(r, c) == Thresholded(A.data[r][c])
            b(r, c) == Thresholded(B.data[r][c])
            d(r, c) == FSub(a(r, c), b(r, c))
            sq(r, c) == FMul(d(r, c), d(r, c))
            nz(r, c) == Num((IF a(r, c) = Num(0) THEN 0 ELSE 1)
                            + (IF b(r, c) = Num(0) THEN 0 ELSE 1))
        IN  /\ err' = ""
            /\ cmp'.dif.shape = A.shape
            /\ \A r \in 1..Rows(A), c \in 1..Cols(A) : cmp'.dif.data[r][c] = d(r, c)
            /\ cmp'.msd = FDiv(SumCells(A.shape, sq), SumCells(A.shape, nz))]_vars

\* a 2 x 2 comparison with two cells of the first grid zeroed: 4 nonzero cells
\* of 8, and the mean over those 4 is 1
C12_Witness ==
    /\ pc = "rmsd_done"
    /\ cmp.dif.shape = <<2, 2>>
    /\ pre.ciu_data.data = <<<<Frac(1, 20), Num(1)>>, <<Num(1), Frac(1, 20)>>>>
    /\ obj2.ciu_data.data = <<<<Num(1), Num(0)>>, <<Num(0), Num(1)>>>>
    /\ cmp.dif.data = <<<<Num(-1), Num(1)>>, <<Num(1), Num(-1)>>>>
    /\ cmp.msd = Num(1)

\* C13: the RMSD of any two grids of one shape is a number >= 0, and the RMSD
\* of a grid compared with an equal grid is 0, also when every cell is below
\* the 0.1 threshold.
C13_RmsdNonNegative ==
    [][(pc = "rmsd" /\ pc' = "rmsd_done") =>
        /\ IsFinite(cmp'.msd) /\ FLe(Num(0), cmp'.msd)
        /\ obj.ciu_data = obj2.ciu_data => cmp'.msd = Num(0)]_vars

\* C14: for a grid with max > min, any merge_cutoff and any num_contours,
\* every level get_contour_levels returns is strictly greater than the one
\* before it; the first level, min_val, is strictly below the merge_cutoff
\* level after it.
C14_LevelsStrictlyAscending ==
    (pc = "contoured" /\ FLt(GridMin(call.ciu_data), GridMax(call.ciu_data))) =>
        \A i \in 1..(Len(call.levels) - 1) : FLt(call.levels[i], call.levels[i + 1])

IsRootOf(s, v) ==
    IF Len(s) = 3 THEN <<s[1], s[2]>> = v
    ELSE FLe(Num(0), s) /\ FMul(s, s) = v

C18_DeltaDtShift ==
    op.name = "delta_dt" =>
        LET col == Column(pre.ciu_data, 1)
            idx == CHOOSE i \in 1..Len(col) :
                      /\ \A j \in 1..Len(col) : FLe(col[j], col[i])
                      /\ \A j \in 1..(i - 1) : FLt(col[j], col[i])
            centroid == pre.axes[1][idx]
        IN  /\ err = ""
            /\ Len(obj.axes[1]) = Len(pre.axes[1])
            /\ \A i \in 1..Len(pre.axes[1]) :
                  obj.axes[1][i] = FSub(pre.axes[1][i], centroid)
            /\ obj.axes[1][idx] = Num(0)
            /\ obj.axes[2] = pre.axes[2]
            /\ obj.ciu_data = pre.ciu_data

\* a first column with its maximum at both rows: the first row is taken
C18_Witness ==
    /\ op.name = "delta_dt"
    /\ nops = 1
    /\ Column(pre.ciu_data, 1) = <<Num(2), Num(2)>>
    /\ pre.axes[1] = <<Num(3), Num(1)>>
    /\ obj.axes[1] = <<Num(0), Num(-2)>>

\* C19: process_raw_obj called with a freshly constructed Parameters object,
\* every option None, skips the optional stages: it ends without an error and
\* returns an analysis object holding the normalized grid on the raw object's
\* axes.
C19_UnsetOptionsSkipStages ==
    (params = NoParams /\ pc \notin {"start", "normalized"}) =>
        /\ pc # "error"
        /\ err = ""
        /\ pc = "done" =>
              /\ obj.ciu_data = normalize_by_col(raw.rawdata)
              /\ obj.axes = <<raw.dt_axis, raw.cv_axis>>

\* the quadratic Savitzky-Golay weights for a window of five, in 35ths: at the
\* centre of the window, and at the first and second point of the window
SavGol5Centre == <<-3, 12, 17, 12, -3>>

SavGol5First == <<31, 9, -3, -5, 3>>

SavGol5Second == <<9, 13, 12, 6, -5>>

\* one pass over a column with an odd window of three (which a quadratic
\* fits exactly) or five
ExpectedPass(col, w) ==
    IF w = 3 THEN col
    ELSE LET n == Len(col)
             Dot(weights, from, mirrored) ==
                 SumSeq([k \in 1..5 |->
                     FMul(Frac(weights[IF mirrored THEN 6 - k ELSE k], 35), col[from + k - 1])])
         IN  [i \in 1..n |->
                 IF i = 1 THEN Dot(SavGol5First, 1, FALSE)
                 ELSE IF i = 2 THEN Dot(SavGol5Second, 1, FALSE)
                 ELSE IF i = n THEN Dot(SavGol5First, n - 4, TRUE)
                 ELSE IF i = n - 1 THEN Dot(SavGol5Second, n - 4, TRUE)
                 ELSE Dot(SavGol5Centre, i - 2, FALSE)]

RECURSIVE ExpectedPasses(_, _, _)
ExpectedPasses(col, w, n) ==
    IF n = 0 THEN col ELSE ExpectedPasses(ExpectedPass(col, w), w, n - 1)

C21_RetryOnceAfterPrompt ==
    call.fn \in Writers =>
        /\ Len(call.outcomes) <= 2
        /\ Len(call.outcomes) = 2 =>
              /\ call.outcomes[1] = "PermissionError"
              /\ call.prompts = 1
              /\ call.acknowledged = 1
        /\ pc \in {"written", "error"} =>
              /\ Len(call.outcomes) >= 1
              /\ call.outcomes[1] = "PermissionError" => Len(call.outcomes) = 2
              /\ call.outcomes[1] = "ok" => (Len(call.outcomes) = 1 /\ call.prompts = 0)
              /\ (pc = "error") = (call.outcomes[Len(call.outcomes)] # "ok")
              /\ pc = "error" => err = call.outcomes[Len(call.outcomes)]

====
